---- MODULE Spec2Model ----
(***************************************************************************)
(* FFT window functions of AudioTools/AudioLibs/FFT/FFTWindows.h.          *)
(*                                                                         *)
(* The object under test is one WindowFunction*: either a concrete window  *)
(* or a BufferedWindow wrapping a concrete window of that variant.         *)
(* begin() is virtual, factor() is the non-virtual method of the base      *)
(* class that dispatches factor_internal().  begin() takes a positive      *)
(* length, on the object under test or directly on the window a            *)
(* BufferedWindow wraps; factor() takes an index from one below the frame  *)
(* to one past the longest frame.                                          *)
(*                                                                         *)
(* float values are IEEE-754 binary32: +, -, *, / round to nearest, ties   *)
(* to even, as the code's float expressions do when each operation is      *)
(* rounded on its own (no fused multiply-add).  cos() is a table of the    *)
(* math library's results at the arguments frame lengths up to 8 produce.  *)
(***************************************************************************)
EXTENDS Integers, Sequences, FiniteSets, TLC

\* ---------------------------------------------------------------- bounds
MaxN == 4
MaxBegins == 3

\* ----------------------------------------------------- float arithmetic
\* An IEEE-754 binary32 value is [m, e], standing for m * 2^e, with
\* 2^23 <= |m| < 2^24 for every nonzero value and [0, 0] for zero.
\* e = 999 marks the specials: NaN = [0, 999], +inf = [1, 999],
\* -inf = [-1, 999].  Every operation rounds to nearest, ties to even.
\* Overflow and the sign of zero do not arise in the windows' arithmetic and are
\* left out; a subnormal is written with a normalised mantissa and e < -149.
Abs(x) == IF x < 0 THEN -x ELSE x

Sign(x) == IF x < 0 THEN -1 ELSE IF x > 0 THEN 1 ELSE 0

NaN == [m |-> 0, e |-> 999]

Inf(s) == [m |-> s, e |-> 999]

Zero == [m |-> 0, e |-> 0]

IsNaN(a) == a.e = 999 /\ a.m = 0

IsInf(a) == a.e = 999 /\ a.m # 0

\* the exact value m * 2^e, 0 <= m < 2^24, with a full 24 bit mantissa
RECURSIVE NormPos(_, _)
NormPos(m, e) ==
  IF m = 0 THEN Zero
  ELSE IF m < 4096 THEN NormPos(4096 * m, e - 12)
  ELSE IF m < 1048576 THEN NormPos(16 * m, e - 4)
  ELSE IF m < 8388608 THEN NormPos(2 * m, e - 1)
  ELSE [m |-> m, e |-> e]

\* m * 2^e followed by guard bit g and sticky flag st, rounded to 24 bits
RECURSIVE RoundPos(_, _, _, _)
RoundPos(m, e, g, st) ==
  IF m >= 134217728
  THEN RoundPos(m \div 16, e + 4, (m \div 8) % 2, st \/ g = 1 \/ m % 8 # 0)
  ELSE IF m >= 16777216 THEN RoundPos(m \div 2, e + 1, m % 2, st \/ g = 1)
  ELSE LET r == IF g = 1 /\ (st \/ m % 2 = 1) THEN m + 1 ELSE m
       IN  IF r = 16777216 THEN [m |-> 8388608, e |-> e + 1]
           ELSE NormPos(r, e)

\* the float nearest to s * mag * 2^e (st: nonzero bits below mag)
Round(s, mag, e, st) ==
  LET r == RoundPos(mag, e, 0, st)
  IN  [m |-> s * r.m, e |-> r.e]

\* x shifted right by d bits, the lowest bit of the result set when a
\* nonzero bit was shifted out
ShiftRightSticky(x, d) ==
  IF d >= 30 THEN (IF x # 0 THEN 1 ELSE 0)
  ELSE LET q == x \div (2 ^ d)
           r == x % (2 ^ d)
       IN  IF r # 0 /\ q % 2 = 0 THEN q + 1 ELSE q

\* static_cast<float>(i), and the int -> float promotions
Float(i) == Round(Sign(i), Abs(i), 0, FALSE)

One == Float(1)

Two == Float(2)

FNeg(a) == [m |-> -a.m, e |-> a.e]

FAdd(a, b) ==
  IF IsNaN(a) \/ IsNaN(b) THEN NaN
  ELSE IF IsInf(a) /\ IsInf(b) THEN (IF a.m = b.m THEN a ELSE NaN)
  ELSE IF IsInf(a) THEN a
  ELSE IF IsInf(b) THEN b
  ELSE IF a.m = 0 THEN b
  ELSE IF b.m = 0 THEN a
  ELSE LET hi == IF a.e >= b.e THEN a ELSE b
           lo == IF a.e >= b.e THEN b ELSE a
           S  == hi.m * 64
                 + Sign(lo.m) * ShiftRightSticky(Abs(lo.m) * 64, hi.e - lo.e)
       IN  Round(Sign(S), Abs(S), hi.e - 6, FALSE)

FSub(a, b) == FAdd(a, FNeg(b))

FMul(a, b) ==
  IF IsNaN(a) \/ IsNaN(b) THEN NaN
  ELSE IF IsInf(a) \/ IsInf(b)
       THEN (IF a.m = 0 \/ b.m = 0 THEN NaN ELSE Inf(Sign(a.m) * Sign(b.m)))
  ELSE IF a.m = 0 \/ b.m = 0 THEN Zero
  ELSE LET a1  == Abs(a.m) \div 4096
           a0  == Abs(a.m) % 4096
           b1  == Abs(b.m) \div 4096
           b0  == Abs(b.m) % 4096
           mid == a1 * b0 + a0 * b1
           t   == a0 * b0 + (mid % 4096) * 4096
           low == t % 16777216
           hi  == a1 * b1 + mid \div 4096 + t \div 16777216
       IN  Round(Sign(a.m) * Sign(b.m), hi * 64 + low \div 262144,
                 a.e + b.e + 18, low % 262144 # 0)

\* 7 * n more quotient bits of r / y appended to q: <<quotient, remainder>>
RECURSIVE LongDiv(_, _, _, _)
LongDiv(r, y, q, n) ==
  IF n = 0 THEN <<q, r>>
  ELSE LongDiv((128 * r) % y, y, 128 * q + (128 * r) \div y, n - 1)

FDiv(a, b) ==
  IF IsNaN(a) \/ IsNaN(b) THEN NaN
  ELSE IF IsInf(a)
       THEN (IF IsInf(b) THEN NaN ELSE Inf(a.m * (IF b.m < 0 THEN -1 ELSE 1)))
  ELSE IF IsInf(b) THEN Zero
  ELSE IF b.m = 0 THEN (IF a.m = 0 THEN NaN ELSE Inf(Sign(a.m)))
  ELSE IF a.m = 0 THEN Zero
  ELSE LET x  == Abs(a.m)
           y  == Abs(b.m)
           qr == LongDiv(x % y, y, x \div y, 4)
       IN  Round(Sign(a.m) * Sign(b.m), qr[1], a.e - b.e - 28, qr[2] # 0)

FAbs(a) == [m |-> Abs(a.m), e |-> a.e]

\* a > b on floats: false when either side is NaN
FGt(a, b) == FSub(a, b).m > 0

\* a == b on floats: false when either side is NaN
FEq(a, b) == ~IsNaN(a) /\ ~IsNaN(b) /\ a = b

\* a < 0 on floats
FNegative(a) == a.m < 0

\* a float read from memory the program does not own. It stands for every
\* binary32 value at once: nothing is known of it, and after the clamp of
\* factor() only that it is NaN or not above one.
Indeterminate == [m |-> 0, e |-> 1000]

Determinate(a) == a # Indeterminate

\* a decimal literal such as 0.54f: the float nearest to units / scale
Dec(units, scale) == FDiv(Float(units), Float(scale))

\* const float twoPi = 6.28318531f, fourPi = 12.56637061f,
\* sixPi = 18.84955593f
twoPi == [m |-> 13176795, e |-> -21]

fourPi == [m |-> 13176795, e |-> -20]

sixPi == [m |-> 9882596, e |-> -19]

\* cos on float: <<m, e>> :> <<cm, ce>> stands for cos(m * 2^e) = cm * 2^ce,
\* for the arguments twoPi * r, fourPi * r and sixPi * r with
\* r = k / (N - 1), 0 <= k <= 8 and 2 <= N <= 8
CosTab ==
  <<0, 0>> :> <<8388608, -23>> @@
  <<13176795, -21>> :> <<8388608, -23>> @@
  <<13176795, -20>> :> <<8388608, -23>> @@
  <<9882596, -19>> :> <<8388608, -23>> @@
  <<13176795, -19>> :> <<8388608, -23>> @@
  <<16470994, -19>> :> <<8388608, -23>> @@
  <<9882596, -18>> :> <<8388608, -23>> @@
  <<11529696, -18>> :> <<8388608, -23>> @@
  <<13176795, -18>> :> <<8388608, -23>> @@
  <<13176795, -22>> :> <<-8388608, -23>> @@
  <<9882596, -20>> :> <<-8388608, -23>> @@
  <<16470994, -20>> :> <<-8388608, -23>> @@
  <<11529696, -19>> :> <<-8388608, -23>> @@
  <<8784530, -22>> :> <<-8388609, -24>> @@
  <<8784530, -21>> :> <<-16777213, -25>> @@
  <<8784530, -20>> :> <<-8388611, -24>> @@
  <<10980662, -20>> :> <<-8388611, -24>> @@
  <<15372927, -20>> :> <<-16777214, -25>> @@
  <<8784530, -19>> :> <<-16777202, -25>> @@
  <<13176795, -23>> :> <<-12303662, -48>> @@
  <<9882596, -21>> :> <<13426222, -50>> @@
  <<16470994, -21>> :> <<-11884093, -45>> @@
  <<11529696, -20>> :> <<11674308, -44>> @@
  <<10541436, -23>> :> <<10368889, -25>> @@
  <<10541436, -22>> :> <<-13573054, -24>> @@
  <<15812155, -22>> :> <<-13573049, -24>> @@
  <<10541436, -21>> :> <<10368894, -25>> @@
  <<15812155, -21>> :> <<10368868, -25>> @@
  <<9223756, -20>> :> <<-13573051, -24>> @@
  <<10541436, -20>> :> <<-13573050, -24>> @@
  <<8784530, -23>> :> <<16777215, -25>> @@
  <<10980662, -21>> :> <<16777213, -25>> @@
  <<15372927, -21>> :> <<8388608, -24>> @@
  <<15059195, -24>> :> <<10460422, -24>> @@
  <<15059195, -23>> :> <<-14933136, -26>> @@
  <<11294396, -22>> :> <<-15115750, -24>> @@
  <<15059195, -22>> :> <<-15115747, -24>> @@
  <<9411997, -21>> :> <<-14933101, -26>> @@
  <<11294396, -21>> :> <<10460427, -24>> @@
  <<15059195, -21>> :> <<10460416, -24>> @@
  <<16470994, -18>> :> <<8388608, -23>> @@
  <<9882596, -17>> :> <<8388608, -23>> @@
  <<11529696, -17>> :> <<8388608, -23>> @@
  <<13176795, -17>> :> <<8388608, -23>> @@
  <<10980662, -19>> :> <<-16777205, -25>> @@
  <<15372927, -19>> :> <<-8388610, -24>> @@
  <<8784530, -18>> :> <<-8388622, -24>> @@
  <<15812155, -20>> :> <<-13573066, -24>> @@
  <<9223756, -19>> :> <<10368875, -25>> @@
  <<10541436, -19>> :> <<10368872, -25>> @@
  <<9411997, -20>> :> <<-15115755, -24>> @@
  <<11294396, -20>> :> <<-14933090, -26>> @@
  <<15059195, -20>> :> <<-14933198, -26>> @@
  <<14823894, -18>> :> <<8388608, -23>> @@
  <<12353245, -17>> :> <<8388608, -23>> @@
  <<14823894, -17>> :> <<8388608, -23>> @@
  <<8647272, -16>> :> <<8388608, -23>> @@
  <<9882596, -16>> :> <<8388608, -23>> @@
  <<14823894, -19>> :> <<-8388608, -23>> @@
  <<12353245, -18>> :> <<-8388608, -23>> @@
  <<8647272, -17>> :> <<-8388608, -23>> @@
  <<16470993, -19>> :> <<8388608, -23>> @@
  <<11529695, -18>> :> <<8388608, -23>> @@
  <<14823894, -20>> :> <<-10069666, -48>> @@
  <<12353245, -19>> :> <<8391389, -47>> @@
  <<8647272, -18>> :> <<-8755731, -42>> @@
  <<15812154, -22>> :> <<-13573052, -24>> @@
  <<15812154, -21>> :> <<10368883, -25>> @@
  <<11859116, -20>> :> <<10368915, -25>> @@
  <<15812154, -20>> :> <<-13573057, -24>> @@
  <<11859116, -19>> :> <<-13573037, -24>> @@
  <<13835634, -19>> :> <<10368912, -25>> @@
  <<15812154, -19>> :> <<10368917, -25>> @@
  <<16470993, -20>> :> <<-8388608, -23>> @@
  <<11529695, -19>> :> <<-8388608, -23>> @@
  <<8470797, -20>> :> <<-14933155, -26>> @@
  <<14117995, -20>> :> <<10460414, -24>> @@
  <<8470797, -19>> :> <<-15115743, -24>> @@
  <<11294396, -19>> :> <<-15115758, -24>>

\* cos(x); cos is even
Cos(x) ==
  IF x.e = 999 THEN NaN
  ELSE LET t == CosTab[<<Abs(x.m), x.e>>]
       IN  [m |-> t[1], e |-> t[2]]

\* cos(twoPi * r)
CosTwoPi(r) == Cos(FMul(twoPi, r))

\* cos(fourPi * r)
CosFourPi(r) == Cos(FMul(fourPi, r))

\* cos(sixPi * r)
CosSixPi(r) == Cos(FMul(sixPi, r))

\* --------------------------------------------------------- WindowFunction
Variants ==
  {"Rectange", "Hamming", "Hann", "Triangle", "Nuttall", "Blackman",
   "BlackmanNuttall", "BlackmanHarris", "FlatTop", "Welch"}

\* the fields of a freshly constructed window
NewWindow == [samples_minus_1 |-> Zero, i_samples |-> 0, i_half_samples |-> 0]

\* mutant: the half length rounded up
HalfOf_RoundUp(samples) == (samples + 1) \div 2

\* samples / 2 on int
HalfOf(samples) ==
  IF samples >= 0 THEN samples \div 2 ELSE -((-samples) \div 2)

WindowFunction_begin(samples) ==
  [samples_minus_1 |-> FAdd(Float(-1), Float(samples)),
   i_samples       |-> samples,
   i_half_samples  |-> HalfOf(samples)]

ratio(w, idx) == FDiv(Float(idx), w.samples_minus_1)

\* mutant: the mirrored index without the - 1
MirrorIdx_NoMinusOne(w, idx) == w.i_samples - idx

\* the index factor() hands to factor_internal
MirrorIdx(w, idx) == w.i_samples - idx - 1

InternalIdx(w, idx) ==
  IF idx <= w.i_half_samples THEN idx ELSE MirrorIdx(w, idx)

Clamp(result) ==
  IF result = Indeterminate THEN Indeterminate
  ELSE IF FGt(result, One) THEN One ELSE result

\* ------------------------------------------------------ concrete variants
\* the float literals of the formulas, 0.54f as c0_54
c0_54 == Dec(54, 100)

c0_46 == Dec(46, 100)

c0_355768 == Dec(355768, 1000000)

c0_487396 == Dec(487396, 1000000)

c0_144232 == Dec(144232, 1000000)

c0_012604 == Dec(12604, 1000000)

c0_42323 == Dec(42323, 100000)

c0_49755 == Dec(49755, 100000)

c0_07922 == Dec(7922, 100000)

c0_3635819 == Dec(3635819, 10000000)

c0_4891775 == Dec(4891775, 10000000)

c0_1365995 == Dec(1365995, 10000000)

c0_0106411 == Dec(106411, 10000000)

c0_35875 == Dec(35875, 100000)

c0_48829 == Dec(48829, 100000)

c0_14128 == Dec(14128, 100000)

c0_01168 == Dec(1168, 100000)

c0_2810639 == Dec(2810639, 10000000)

c0_5208972 == Dec(5208972, 10000000)

c0_1980399 == Dec(1980399, 10000000)

\* mutant: the lower range check taken as idx <= 0
Rectange_factor_internal_LowerOff(w, idx) ==
  IF idx <= 0 \/ idx >= w.i_samples THEN Zero ELSE One

Rectange_factor_internal(w, idx) ==
  IF idx < 0 \/ idx >= w.i_samples THEN Zero ELSE One

Hamming_factor_internal(w, idx) ==
  FSub(c0_54, FMul(c0_46, CosTwoPi(ratio(w, idx))))

Hann_factor_internal(w, idx) ==
  FMul(c0_54, FSub(One, CosTwoPi(ratio(w, idx))))

Triangle_factor_internal(w, idx) ==
  FSub(One,
       FDiv(FMul(Two, FAbs(FSub(Float(idx - 1),
                                FDiv(Float(w.i_samples - 1), Two)))),
            w.samples_minus_1))

Nuttall_factor_internal(w, idx) ==
  LET r == ratio(w, idx)
  IN  FSub(FAdd(FSub(c0_355768,
                     FMul(c0_487396, CosTwoPi(r))),
                FMul(c0_144232, CosFourPi(r))),
           FMul(c0_012604, CosSixPi(r)))

Blackman_factor_internal(w, idx) ==
  LET r == ratio(w, idx)
  IN  FAdd(FSub(c0_42323, FMul(c0_49755, CosTwoPi(r))),
           FMul(c0_07922, CosFourPi(r)))

BlackmanNuttall_factor_internal(w, idx) ==
  LET r == ratio(w, idx)
  IN  FSub(FAdd(FSub(c0_3635819,
                     FMul(c0_4891775, CosTwoPi(r))),
                FMul(c0_1365995, CosFourPi(r))),
           FMul(c0_0106411, CosSixPi(r)))

BlackmanHarris_factor_internal(w, idx) ==
  LET r == ratio(w, idx)
  IN  FSub(FAdd(FSub(c0_35875,
                     FMul(c0_48829, CosTwoPi(r))),
                FMul(c0_14128, CosFourPi(r))),
           FMul(c0_01168, CosSixPi(r)))

FlatTop_factor_internal(w, idx) ==
  LET r == ratio(w, idx)
  IN  FAdd(FSub(c0_2810639,
                FMul(c0_5208972, CosTwoPi(r))),
           FMul(c0_1980399, CosFourPi(r)))

Welch_factor_internal(w, idx) ==
  LET tmp == FDiv(FSub(Float(idx - 1), FDiv(w.samples_minus_1, Two)),
                  FDiv(w.samples_minus_1, Two))
  IN  FSub(One, FMul(tmp, tmp))

\* virtual dispatch of factor_internal on a concrete window
Variant_factor_internal(v, w, idx) ==
  CASE v = "Rectange" -> Rectange_factor_internal(w, idx)
    [] v = "Hamming"  -> Hamming_factor_internal(w, idx)
    [] v = "Hann"     -> Hann_factor_internal(w, idx)
    [] v = "Triangle" -> Triangle_factor_internal(w, idx)
    [] v = "Nuttall"  -> Nuttall_factor_internal(w, idx)
    [] v = "Blackman" -> Blackman_factor_internal(w, idx)
    [] v = "BlackmanNuttall" -> BlackmanNuttall_factor_internal(w, idx)
    [] v = "BlackmanHarris"  -> BlackmanHarris_factor_internal(w, idx)
    [] v = "FlatTop"  -> FlatTop_factor_internal(w, idx)
    [] v = "Welch"    -> Welch_factor_internal(w, idx)

\* WindowFunction::factor on a concrete window
Variant_factor(v, w, idx) ==
  Clamp(Variant_factor_internal(v, w, InternalIdx(w, idx)))

\* the field values a window can hold: as constructed, or after begin(samples)
Windows == {NewWindow} \cup {WindowFunction_begin(n) : n \in 1..MaxN}

\* factor(idx) of every variant on every such window, computed once
FactorTable ==
  [v \in Variants, w \in Windows, idx \in -1..MaxN |->
     Variant_factor(v, w, idx)]

\* factor(idx) on a concrete window, read from the table where it has the entry
factor(v, w, idx) ==
  IF w \in Windows /\ idx \in -1..MaxN
  THEN FactorTable[v, w, idx]
  ELSE Variant_factor(v, w, idx)

\* --------------------------------------------------------- BufferedWindow
\* buffer[idx]; a read past the end of the vector yields whatever the memory
\* there holds
BufferAt(buf, idx) ==
  IF idx < Len(buf) THEN buf[idx + 1] ELSE Indeterminate

\* mutant: the upper range check taken as idx >= i_half_samples
BufferedWindow_factor_internal_UpperOff(w, buf, idx) ==
  IF idx < 0 \/ idx >= w.i_half_samples THEN Zero ELSE BufferAt(buf, idx)

BufferedWindow_factor_internal(w, buf, idx) ==
  IF idx < 0 \/ idx > w.i_half_samples THEN Zero ELSE BufferAt(buf, idx)

\* WindowFunction::factor on the decorator
Buffered_factor(w, buf, idx) ==
  Clamp(BufferedWindow_factor_internal(w, buf, InternalIdx(w, idx)))

\* process only if there is a change
LengthChanged(pw, samples) == pw.i_samples # samples

\* mutant: the cache sized without the + 1
ToBeSize_NoPlusOne(w) == w.i_half_samples

ToBeSize(w) == w.i_half_samples + 1

NeedsResize(buf, to_be_size) == Len(buf) # to_be_size

\* buffer.resize(to_be_size): old entries kept, new entries value-initialised
Resize(buf, to_be_size) ==
  [k \in 1..to_be_size |-> IF k <= Len(buf) THEN buf[k] ELSE Zero]

\* mutant: the loop runs over the whole frame, j < i_samples
FillIndices_WholeFrame(w) == [k \in 1..w.i_samples |-> k - 1]

\* the indices j of the loop  for (j = 0; j <= i_half_samples; j++)
FillIndices(w) == [k \in 1..(w.i_half_samples + 1) |-> k - 1]

\* buffer[j] = p_wf->factor(j) for every j of the loop
FillBuffer(buf, v, pw, js) ==
  [k \in 1..Len(buf) |->
     IF \E i \in 1..Len(js) : js[i] = k - 1
     THEN factor(v, pw, k - 1) ELSE buf[k]]

\* mutant: p_wf->factor(j) evaluated twice for every j
FillCalls_Twice(pw, js) ==
  [k \in 1..(2 * Len(js)) |-> InternalIdx(pw, js[((k - 1) % Len(js)) + 1])]

\* the arguments p_wf->factor(j) passes to the wrapped factor_internal
FillCalls(pw, js) == [k \in 1..Len(js) |-> InternalIdx(pw, js[k])]

\* factor_internal(idx) reads buffer[idx] past the end of the vector
PastEnd(w, buf, idx) ==
  idx >= 0 /\ idx <= w.i_half_samples /\ idx >= Len(buf)

\* ------------------------------------------------------------------ state
VARIABLES
  variant,   \* the concrete window class (of the wrapped window if buffered)
  buffered,  \* the object under test is a BufferedWindow
  self,      \* fields of the object under test
  p_wf,      \* fields of the wrapped window (BufferedWindow::p_wf)
  buffer,    \* BufferedWindow::buffer
  begins,    \* number of begin() calls made on the object under test
  direct,    \* number of begin() calls made on the wrapped window itself
  prev,      \* samples() before the last begin()
  op,        \* last call: "new", "begin", "wbegin", "factor" or "abort"
  arg,       \* its argument
  ret,       \* what the last call returned, Zero for the void begin()
  fiArgs,    \* arguments of the object's own factor_internal in the last call
  wArgs,     \* arguments of the wrapped factor_internal in the last call
  bufRead,   \* buffer index read in the last call, -1 if none
  evals,     \* evals[N]: wrapped factor_internal runs while configured for N
  stretch    \* wrapped factor_internal runs since samples() last changed

vars == <<variant, buffered, self, p_wf, buffer, begins, direct, prev, op,
          arg, ret, fiArgs, wArgs, bufRead, evals, stretch>>

Lengths == 1..MaxN

Init ==
  /\ variant \in Variants
  /\ buffered \in BOOLEAN
  /\ self = NewWindow
  /\ p_wf = NewWindow
  /\ buffer \in (IF buffered THEN {<< >>, <<Zero>>} ELSE {<< >>})
  /\ begins = 0
  /\ direct = 0
  /\ prev = 0
  /\ op = "new"
  /\ arg = 0
  /\ ret = Zero
  /\ fiArgs = << >>
  /\ wArgs = << >>
  /\ bufRead = -1
  /\ evals = [N \in Lengths |-> 0]
  /\ stretch = 0

\* w->begin(samples) on a concrete window
PlainBegin(samples) ==
  /\ ~buffered
  /\ op # "abort"
  /\ begins + direct < MaxBegins
  /\ self' = WindowFunction_begin(samples)
  /\ begins' = begins + 1
  /\ prev' = self.i_samples
  /\ op' = "begin"
  /\ arg' = samples
  /\ fiArgs' = << >>
  /\ wArgs' = << >>
  /\ bufRead' = -1
  /\ ret' = Zero
  /\ UNCHANGED <<variant, buffered, p_wf, buffer, direct, evals, stretch>>

\* begin(samples) called on the window a BufferedWindow wraps, not through
\* the decorator (before or after the decorator's first begin)
WrappedBegin(samples) ==
  /\ buffered
  /\ op # "abort"
  /\ begins + direct < MaxBegins
  /\ p_wf' = WindowFunction_begin(samples)
  /\ direct' = direct + 1
  /\ op' = "wbegin"
  /\ arg' = samples
  /\ fiArgs' = << >>
  /\ wArgs' = << >>
  /\ bufRead' = -1
  /\ ret' = Zero
  /\ UNCHANGED <<variant, buffered, self, buffer, begins, prev, evals,
                 stretch>>

\* w->begin(samples) on a BufferedWindow
BufferedBegin(samples) ==
  LET me      == WindowFunction_begin(samples)
      changed == LengthChanged(p_wf, samples)
      pw      == IF changed THEN WindowFunction_begin(samples) ELSE p_wf
      refill  == changed /\ NeedsResize(buffer, ToBeSize(me))
      js      == FillIndices(me)
      calls   == IF refill THEN FillCalls(pw, js) ELSE << >>
  IN  /\ buffered
      /\ op # "abort"
      /\ begins + direct < MaxBegins
      /\ self' = me
      /\ p_wf' = pw
      /\ buffer' = IF refill
                    THEN FillBuffer(Resize(buffer, ToBeSize(me)), variant, pw, js)
                    ELSE buffer
      /\ wArgs' = calls
      /\ evals' = [evals EXCEPT ![samples] = @ + Len(calls)]
      /\ stretch' = (IF samples = self.i_samples THEN stretch ELSE 0)
                       + Len(calls)
      /\ begins' = begins + 1
      /\ prev' = self.i_samples
      /\ op' = "begin"
      /\ arg' = samples
      /\ fiArgs' = << >>
      /\ bufRead' = -1
      /\ ret' = Zero
      /\ UNCHANGED <<variant, buffered, direct>>

\* w->factor(idx) returning a value; what it returns after reading buffer[idx]
\* past the end of the vector is Indeterminate
Factor(idx) ==
  /\ op # "abort"
  /\ ret' = IF buffered THEN Buffered_factor(self, buffer, idx)
                        ELSE factor(variant, self, idx)
  /\ op' = "factor"
  /\ arg' = idx
  /\ fiArgs' = <<InternalIdx(self, idx)>>
  /\ wArgs' = << >>
  /\ bufRead' = IF buffered /\ InternalIdx(self, idx) >= 0
                            /\ InternalIdx(self, idx) <= self.i_half_samples
                THEN InternalIdx(self, idx) ELSE -1
  /\ UNCHANGED <<variant, buffered, self, p_wf, buffer, begins, direct, prev,
                 evals, stretch>>

\* w->factor(idx) where the read of buffer[idx] past the end of the vector
\* ends the program (a checked operator[], or a fault)
FactorAbort(idx) ==
  /\ op # "abort"
  /\ buffered
  /\ PastEnd(self, buffer, InternalIdx(self, idx))
  /\ op' = "abort"
  /\ arg' = idx
  /\ ret' = Zero
  /\ fiArgs' = <<InternalIdx(self, idx)>>
  /\ wArgs' = << >>
  /\ bufRead' = InternalIdx(self, idx)
  /\ UNCHANGED <<variant, buffered, self, p_wf, buffer, begins, direct, prev,
                 evals, stretch>>

Next ==
  \/ \E samples \in Lengths : PlainBegin(samples)
  \/ \E samples \in Lengths : BufferedBegin(samples)
  \/ \E samples \in Lengths : WrappedBegin(samples)
  \/ \E idx \in -1..MaxN : Factor(idx)
  \/ \E idx \in -1..MaxN : FactorAbort(idx)

Spec == Init /\ [][Next]_vars

\* ----------------------------------------------------------- properties
\* factor(idx) of a freshly constructed window of variant v after begin(N)
FreshFactor(v, N, idx) == factor(v, WindowFunction_begin(N), idx)

\* what factor(idx) returns on the object under test in the current state
CurrentFactor(idx) ==
  IF buffered THEN Buffered_factor(self, buffer, idx)
              ELSE factor(variant, self, idx)

RECURSIVE SumTo(_, _)
SumTo(f, n) == IF n = 0 THEN 0 ELSE f[n] + SumTo(f, n - 1)

\* all runs of the wrapped factor_internal so far
EvalTotal == SumTo(evals, MaxN)

\* factor(idx) was the last call, with idx inside the frame
FactorInFrame ==
  /\ op = "factor"
  /\ arg >= 0
  /\ arg < self.i_samples

\* C1: a fresh BufferedWindow over a fresh window, after one begin(N) with
\* N >= 2, returns from factor(idx), idx in [0,N), exactly what an unbuffered
\* window of the same variant returns after begin(N).
C1_BufferedEqualsUnbuffered ==
  (buffered /\ direct = 0 /\ begins = 1 /\ self.i_samples >= 2
     /\ FactorInFrame)
    => Determinate(ret) /\ FEq(ret, FreshFactor(variant, self.i_samples, arg))

C1_Witness ==
  /\ buffered
  /\ direct = 0
  /\ variant = "Hamming"
  /\ begins = 1
  /\ self.i_samples = 4
  /\ op = "factor"
  /\ arg = 3
  /\ FGt(ret, Zero)
  /\ FGt(One, ret)

\* C2: after begin(N1) then begin(N2), N1 # N2, both >= 2, samples() is N2,
\* half_samples is N2/2 and factor(idx), idx in [0,N2), is the value a fresh
\* window of the same variant returns after a single begin(N2).
C2_ReconfiguredLikeFresh ==
  (begins >= 2 /\ prev >= 2 /\ self.i_samples >= 2 /\ prev # self.i_samples)
    => /\ op = "begin" => self.i_samples = arg
       /\ self.i_half_samples = self.i_samples \div 2
       /\ FactorInFrame
            => /\ Determinate(ret)
               /\ FEq(ret, FreshFactor(variant, self.i_samples, arg))

\* C3: after one begin(N) on a fresh BufferedWindow and any number of
\* factor(idx) calls, the wrapped factor_internal has run at most N/2+1
\* times, none of them during a factor call.
C3_FillOncePerBegin ==
  (buffered /\ direct = 0 /\ begins = 1)
    => /\ EvalTotal <= self.i_samples \div 2 + 1
       /\ op = "factor" => wArgs = << >>

C3_Witness ==
  /\ buffered
  /\ direct = 0
  /\ begins = 1
  /\ self.i_samples = 4
  /\ FactorInFrame
  /\ EvalTotal = 3

\* C4 as stated: over any sequence of calls, for each frame length N the
\* wrapped factor_internal runs, while configured for N, at most N/2+1 times
\* in total.
C4_AtMostOncePerLength ==
  \A N \in Lengths : evals[N] <= N \div 2 + 1

\* C4 amended: while samples() stays N, over however many begin(N) and
\* factor calls, the wrapped factor_internal runs at most N/2+1 times in
\* total; a factor call never runs it; and when the wrapped window is only
\* configured through the decorator, a begin(N) that leaves the length
\* unchanged does not run it.
C4_AtMostOncePerStretch ==
  /\ buffered => stretch <= self.i_samples \div 2 + 1
  /\ op \in {"factor", "abort"} => wArgs = << >>
  /\ (buffered /\ direct = 0 /\ op = "begin" /\ prev = arg) => wArgs = << >>

C4_Witness ==
  /\ buffered
  /\ direct = 0
  /\ begins = 3
  /\ op = "begin"
  /\ prev = 4
  /\ arg = 4
  /\ stretch = 3
  /\ evals[2] = 2
  /\ evals[4] = 3

\* C5: for every variant and every N >= 2, after begin(N),
\* factor(idx) == factor(N-1-idx) for all idx in [0,N).
C5_Symmetric ==
  (begins >= 1 /\ self.i_samples >= 2 /\ FactorInFrame)
    => Determinate(ret) /\ FEq(ret, CurrentFactor(self.i_samples - 1 - arg))

\* C6: for every variant and every N >= 2, after begin(N), factor(idx) lies
\* in [0.0, 1.0] for every idx in [0,N).
C6_InUnitInterval ==
  (begins >= 1 /\ self.i_samples >= 2 /\ FactorInFrame)
    => /\ Determinate(ret)
       /\ ~IsNaN(ret)
       /\ ~FNegative(ret)
       /\ ~FGt(ret, One)

\* C7: on a Rectange window after begin(N), N >= 1, whatever begin calls
\* came before, factor(idx) is 1.0 for idx in [0,N) and 0 for idx outside.
C7_Rectangle ==
  (variant = "Rectange" /\ ~buffered /\ begins >= 1 /\ op = "factor")
    => ret = (IF arg >= 0 /\ arg < self.i_samples THEN One ELSE Zero)

C7_Witness ==
  /\ variant = "Rectange"
  /\ ~buffered
  /\ begins >= 2
  /\ op = "factor"
  /\ arg = self.i_samples
  /\ ret = Zero

\* C8: in every reachable state, of the object under test and of the window
\* a BufferedWindow wraps, half_samples == samples / 2.
C8_HalfInvariant ==
  /\ self.i_half_samples = self.i_samples \div 2
  /\ p_wf.i_half_samples = p_wf.i_samples \div 2

C8_Witness ==
  /\ buffered
  /\ begins >= 2
  /\ self.i_samples = 3
  /\ self.i_half_samples = 1
  /\ p_wf.i_samples = 3
  /\ p_wf.i_half_samples = 1
  /\ op = "factor"

\* C9: factor(idx), idx in [0,N), runs factor_internal exactly once, on idx
\* when idx <= half_samples and on N-idx-1 otherwise, always inside
\* [0, half_samples]; so do the factor(j) calls BufferedWindow::begin makes.
C9_InternalIndexInHalf ==
  /\ (begins >= 1 /\ FactorInFrame)
       => /\ Len(fiArgs) = 1
          /\ fiArgs[1] >= 0
          /\ fiArgs[1] <= self.i_half_samples
          /\ fiArgs[1] = (IF arg <= self.i_samples \div 2 THEN arg
                          ELSE self.i_samples - arg - 1)
  /\ \A k \in 1..Len(wArgs) : wArgs[k] >= 0 /\ wArgs[k] <= p_wf.i_half_samples

C9_Witness ==
  /\ op = "factor"
  /\ self.i_samples = 4
  /\ arg = 3
  /\ fiArgs = <<0>>

\* C10: on a BufferedWindow after one or more begin(N) calls, N >= 1, the
\* cache holds exactly half_samples+1 entries, the wrapped window has the
\* decorator's length, and factor(idx), idx in [0,N), reads inside the cache.
C10_CacheSized ==
  (buffered /\ direct = 0 /\ begins >= 1)
    => /\ Len(buffer) = self.i_half_samples + 1
       /\ p_wf.i_samples = self.i_samples
       /\ FactorInFrame => (bufRead >= 0 /\ bufRead < Len(buffer))

C10_Witness ==
  /\ buffered
  /\ direct = 0
  /\ begins = 3
  /\ prev = 1
  /\ self.i_samples = 4
  /\ Len(buffer) = 3
  /\ op = "factor"
  /\ arg = 2
  /\ bufRead = 2

====
